---- MODULE Spec2Model ----
(***************************************************************************)
(* Model of the SVG country extractor (deepseek_python_20260112_b8861a.py):*)
(* extract_countries_from_svg, extract_countries_with_regex, save_to_json, *)
(* save_to_csv, print_countries_table and main.                            *)
(*                                                                         *)
(* Strings of the program that are not ASCII are written in pinyin:        *)
(*   "Zhongguo" U+4E2D U+56FD, "Meiguo" U+7F8E U+56FD, "Riben" U+65E5      *)
(*   U+672C, "Yindunixiya" U+5370 U+5EA6 U+5C3C U+897F U+4E9A, and         *)
(*   "weizhi" U+672A U+77E5 (the label main gives a missing type).         *)
(***************************************************************************)
EXTENDS Integers, Sequences, FiniteSets, TLC

VARIABLES
    \* ---- a run of main() ----
    pc,          \* position of main: "start" .. "done", or "aborted"
    fileKind,    \* condition of the input file
    doc,         \* the path nodes the input file carries, in document order
    countries,   \* main's local `countries`
    out,         \* everything printed so far, in order
    calls,       \* the functions main has invoked so far, in order
    jsonFile,    \* countries.json
    csvFile,     \* countries.csv
    before,      \* the two output files as they were when the run began
    \* ---- the two extractors run side by side on the same attribute data ----
    exDoc, xmlRan, xmlOut, reRan, reOut,
    \* ---- print_countries_table called with an arbitrary limit ----
    tblCountries, tblLimit, tblRan, tblOut

mainVars == <<pc, fileKind, doc, countries, out, calls, jsonFile, csvFile, before>>
exVars   == <<exDoc, xmlRan, xmlOut, reRan, reOut>>
tblVars  == <<tblCountries, tblLimit, tblRan, tblOut>>
vars     == <<mainVars, exVars, tblVars>>

-----------------------------------------------------------------------------
(* Bounds *)

\* longest document (number of path nodes) the model enumerates
MaxNodes == 2
\* largest display limit tried on print_countries_table (the smallest is 0)
MaxLimit == 3

-----------------------------------------------------------------------------
(* Dictionaries: a Python dict of strings is a function on its key set.    *)

EmptyDict == [k \in {} |-> ""]

\* d.get(k, default)
DictGet(d, k, default) == IF k \in DOMAIN d THEN d[k] ELSE default

\* d[k] = v
DictSet(d, k, v) == [x \in (DOMAIN d) \cup {k} |-> IF x = k THEN v ELSE d[x]]

\* Python truthiness of d.get(k): None and '' are false
Truthy(d, k) == k \in DOMAIN d /\ d[k] # ""

SeqsUpTo(S, n) == UNION {[1..k -> S] : k \in 0..n}

-----------------------------------------------------------------------------
(* Input documents.  A path node is its attribute dictionary plus whether   *)
(* the element is in the SVG namespace.                                     *)

Attrs == <<"id", "data-name_zht", "data-name_zh", "data-name_en",
           "data-formal_en", "data-type", "data-sovereignt">>

AttrSet == {Attrs[i] : i \in 1..Len(Attrs)}

SampleValue(a) ==
    CASE a = "id"              -> "CHN"
      [] a = "data-name_zht"   -> "Zhongguo"
      [] a = "data-name_zh"    -> "Zhongguo-zh"
      [] a = "data-name_en"    -> "China"
      [] a = "data-formal_en"  -> "People's Republic of China"
      [] a = "data-type"       -> "Sovereign country"
      [] a = "data-sovereignt" -> "China"

\* choice 0: attribute absent, 1: present and empty, 2: present with a value
NodeOf(choice, ns) ==
    [ns |-> ns,
     attrib |-> [a \in {x \in DOMAIN choice : choice[x] # 0} |->
                    IF choice[a] = 1 THEN "" ELSE SampleValue(a)]]

\* every assignment of absent / empty / non-empty to the seven attributes
FullNodes ==
    {NodeOf(c, ns) : c \in [AttrSet -> {0, 1, 2}], ns \in BOOLEAN}

\* the nodes used in longer documents
SmallNodes ==
    {NodeOf(c, ns) :
        c \in {f \in [{"id", "data-name_zht", "data-name_en"} -> {0, 1, 2}] :
                 /\ f["id"] # 1
                 /\ f["data-name_zht"] # 2
                 /\ f["data-name_en"] # 1},
        ns \in BOOLEAN}

ExDocs == SeqsUpTo(SmallNodes, MaxNodes) \cup {<<n>> : n \in FullNodes}

-----------------------------------------------------------------------------
(* Console output: one record per print call.                              *)

Msg(tag, n, text) == [tag |-> tag, n |-> n, text |-> text]

-----------------------------------------------------------------------------
(* extract_countries_from_svg: the structured parse.                        *)

\* path.get(a, default)
PathGet(path, a, default) ==
    IF a \in DOMAIN path.attrib THEN path.attrib[a] ELSE default

\* root.findall('.//path'), and './/svg:path' when that finds nothing
FindPaths(d) ==
    LET plain == SelectSeq(d, LAMBDA p : ~p.ns)
        svg   == SelectSeq(d, LAMBDA p : p.ns)
    IN  IF plain = <<>> THEN svg ELSE plain

\* the dictionary built for one path element, id fallback included
XmlCountryInfo(path) ==
    LET id   == PathGet(path, "id", "")
        zh0  == PathGet(path, "data-name_zht", PathGet(path, "data-name_zh", ""))
        info == [id          |-> id,
                 name_zh     |-> zh0,
                 name_en     |-> PathGet(path, "data-name_en", ""),
                 formal_en   |-> PathGet(path, "data-formal_en", ""),
                 type        |-> PathGet(path, "data-type", ""),
                 sovereignty |-> PathGet(path, "data-sovereignt", "")]
    IN  IF info.name_zh = "" /\ info.id # ""
        THEN [info EXCEPT !.name_zh = info.id]
        ELSE info

\* XmlHasValidInfo with the filter of line 50 left out: every node is kept
XmlHasValidInfoAlways(info) == TRUE

\* if country_info.get('name_zh') or country_info.get('name_en')
XmlHasValidInfo(info) == Truthy(info, "name_zh") \/ Truthy(info, "name_en")

\* XmlLoop inserting at the front instead of appending
RECURSIVE XmlLoopPrepend(_, _)
XmlLoopPrepend(paths, acc) ==
    IF paths = <<>> THEN acc
    ELSE LET info == XmlCountryInfo(Head(paths))
         IN  XmlLoopPrepend(Tail(paths),
                            IF Truthy(info, "name_zh") \/ Truthy(info, "name_en")
                            THEN <<info>> \o acc ELSE acc)

\* for path in paths: ... countries.append(country_info)
RECURSIVE XmlLoop(_, _)
XmlLoop(paths, acc) ==
    IF paths = <<>> THEN acc
    ELSE LET info == XmlCountryInfo(Head(paths))
         IN  XmlLoop(Tail(paths),
                     IF XmlHasValidInfo(info) THEN Append(acc, info) ELSE acc)

-----------------------------------------------------------------------------
(* The raw text of the file, as the regular expressions see it: each path  *)
(* tag is the list of its attribute="value" pairs in the order written.    *)

RECURSIVE RenderAttrs(_, _)
RenderAttrs(node, i) ==
    IF i > Len(Attrs) THEN <<>>
    ELSE (IF Attrs[i] \in DOMAIN node.attrib
          THEN <<<<Attrs[i], node.attrib[Attrs[i]]>>>>
          ELSE <<>>) \o RenderAttrs(node, i + 1)

\* the text of a file that carries the attribute data of d
Rendering(d) == [k \in 1..Len(d) |-> RenderAttrs(d[k], 1)]

\* re.findall(r'<path\s+[^>]*>', content, re.IGNORECASE): a tag matches when
\* white space follows its name, that is when it has an attribute
ReFindAllPaths(content) == SelectSeq(content, LAMBDA tag : tag # <<>>)

\* re.search(attr + '="([^"]*)"', path_tag): <<>> for no match, else <<group(1)>>
RECURSIVE ReSearch(_, _)
ReSearch(attr, tag) ==
    IF tag = <<>> THEN <<>>
    ELSE IF Head(tag)[1] = attr THEN <<Head(tag)[2]>>
    ELSE ReSearch(attr, Tail(tag))

\* country_info[key] = match.group(1) when the pattern matched
SetIfMatch(info, key, match) ==
    IF match # <<>> THEN DictSet(info, key, match[1]) ELSE info

\* the name_zh chain of the fallback extractor
ReNameZh(info, tag) ==
    LET zht == ReSearch("data-name_zht", tag)
        zh  == ReSearch("data-name_zh", tag)
    IN  IF zht # <<>> THEN DictSet(info, "name_zh", zht[1])
        ELSE IF zh # <<>> THEN DictSet(info, "name_zh", zh[1])
        ELSE IF Truthy(info, "id") THEN DictSet(info, "name_zh", info["id"])
        ELSE info

\* the dictionary built for one matched tag
ReCountryInfo(tag) ==
    LET i1 == SetIfMatch(EmptyDict, "id", ReSearch("id", tag))
        i2 == ReNameZh(i1, tag)
        i3 == SetIfMatch(i2, "name_en", ReSearch("data-name_en", tag))
        i4 == SetIfMatch(i3, "formal_en", ReSearch("data-formal_en", tag))
        i5 == SetIfMatch(i4, "type", ReSearch("data-type", tag))
    IN  SetIfMatch(i5, "sovereignty", ReSearch("data-sovereignt", tag))

\* if country_info.get('name_zh') or country_info.get('name_en')
ReHasValidInfo(info) == Truthy(info, "name_zh") \/ Truthy(info, "name_en")

\* for path_tag in paths: ... countries.append(country_info)
RECURSIVE ReLoop(_, _)
ReLoop(tags, acc) ==
    IF tags = <<>> THEN acc
    ELSE LET info == ReCountryInfo(Head(tags))
         IN  ReLoop(Tail(tags),
                    IF ReHasValidInfo(info) THEN Append(acc, info) ELSE acc)

-----------------------------------------------------------------------------
(* The input file and what opening it does.                                *)

FileKinds == {"missing", "unreadable", "undecodable", "malformed", "wellformed"}

\* ET.parse(file_path): the tree, a ParseError, or the OSError of open()
ETParse(kind) ==
    CASE kind \in {"missing", "unreadable"}    -> "OSError"
      [] kind \in {"undecodable", "malformed"} -> "ParseError"
      [] kind = "wellformed"                   -> "ok"

\* open(file_path, 'r', encoding='utf-8') and f.read()
ReadText(kind) ==
    IF kind \in {"missing", "unreadable", "undecodable"} THEN "error" ELSE "ok"

\* extract_countries_with_regex(file_path)
ExtractCountriesWithRegex(kind, d) ==
    IF ReadText(kind) = "ok"
    THEN [countries |-> ReLoop(ReFindAllPaths(Rendering(d)), <<>>),
          printed   |-> <<>>]
    ELSE [countries |-> <<>>,
          printed   |-> <<Msg("read_failed", 0, <<>>)>>]

\* extract_countries_from_svg(file_path); raised: an exception left the function
ExtractCountriesFromSvg(kind, d) ==
    CASE ETParse(kind) = "ok" ->
            [raised |-> FALSE, countries |-> XmlLoop(FindPaths(d), <<>>),
             printed |-> <<>>]
      [] ETParse(kind) = "ParseError" ->
            LET r == ExtractCountriesWithRegex(kind, d)
            IN  [raised |-> FALSE, countries |-> r.countries,
                 printed |-> <<Msg("parse_failed", 0, <<>>)>> \o r.printed]
      [] ETParse(kind) = "OSError" ->
            [raised |-> TRUE, countries |-> <<>>, printed |-> <<>>]

-----------------------------------------------------------------------------
(* Text helpers.  Strings are atoms here, so len(), slicing, `in` and the   *)
(* code point order are tabulated for the strings the model uses.          *)

StrLen(s) ==
    CASE s = ""                           -> 0
      [] s = "CHN"                        -> 3
      [] s = "China"                      -> 5
      [] s = "Zhongguo"                   -> 8
      [] s = "Zhongguo-zh"                -> 11
      [] s = "Sovereign country"          -> 17
      [] s = "People's Republic of China" -> 26

\* s[:n]
StrSlice(s, n) ==
    IF StrLen(s) <= n THEN s
    ELSE CASE s = "Zhongguo-zh" /\ n = 10       -> "Zhongguo-z"
           [] s = "Sovereign country" /\ n = 13 -> "Sovereign cou"

\* term in s
StrContains(term, s) ==
    <<term, s>> \in {<<"Zhongguo", "Zhongguo">>, <<"Zhongguo", "Zhongguo-zh">>}

\* a < b for the type labels, by code point: '' first, ASCII before CJK
StrLess(a, b) ==
    LET rank(x) == CASE x = "" -> 0 [] x = "Sovereign country" -> 1
                     [] x = "weizhi" -> 2
    IN  rank(a) < rank(b)

-----------------------------------------------------------------------------
(* print_countries_table.  A limit is <<>> for None, <<n>> for the int n.   *)

WidthNameZh == 10
WidthNameEn == 18
WidthType == 13
WidthSovereignty == 18

\* seq[:n], n of either sign
PySliceTo(seq, n) ==
    LET len == Len(seq)
        k   == IF n >= 0 THEN (IF n < len THEN n ELSE len)
               ELSE (IF len + n > 0 THEN len + n ELSE 0)
    IN  SubSeq(seq, 1, k)

\* `if limit:` is false for None and for 0
LimitSet(limit) == limit # <<>> /\ limit[1] # 0

\* display_countries
DisplayCountries(cs, limit) ==
    IF LimitSet(limit) THEN PySliceTo(cs, limit[1]) ELSE cs

\* one printed table row
TableRow(i, country) ==
    Msg("row", i,
        <<StrSlice(DictGet(country, "name_zh", ""), WidthNameZh),
          StrSlice(DictGet(country, "name_en", ""), WidthNameEn),
          StrSlice(DictGet(country, "type", ""), WidthType),
          StrSlice(DictGet(country, "sovereignty", ""), WidthSovereignty)>>)

\* the trailing line, printed when limit and len(countries) > limit
OmittedLine(cs, limit) ==
    IF LimitSet(limit) /\ Len(cs) > limit[1]
    THEN <<Msg("omitted", Len(cs) - limit[1], <<>>)>>
    ELSE <<>>

\* everything print_countries_table(countries, limit) prints
PrintCountriesTable(cs, limit) ==
    LET shown == DisplayCountries(cs, limit)
    IN  <<Msg("found", Len(cs), <<>>), Msg("rule", 0, <<>>),
          Msg("table_header", 0, <<>>), Msg("rule", 0, <<>>)>>
        \o [i \in 1..Len(shown) |-> TableRow(i, shown[i])]
        \o OmittedLine(cs, limit)

-----------------------------------------------------------------------------
(* The serializers.  A file is [exists, complete, data]; a write ends       *)
(* "ok", fails in open() ("open_error": nothing touched) or fails after     *)
(* the file was truncated ("write_error": an incomplete file is left).     *)

WriteOutcomes == {"ok", "open_error", "write_error"}

NoFile == [exists |-> FALSE, complete |-> FALSE, data |-> <<>>]

FileWith(data) == [exists |-> TRUE, complete |-> TRUE, data |-> data]

Incomplete == [exists |-> TRUE, complete |-> FALSE, data |-> <<>>]

\* what open(output_file, 'w') and the writes leave behind
Written(file, data, outcome) ==
    CASE outcome = "ok"          -> FileWith(data)
      [] outcome = "open_error"  -> file
      [] outcome = "write_error" -> Incomplete

\* SaveToJson without its `except Exception`: a failed write raises
SaveToJsonNoCatch(cs, file, outcome) ==
    [file    |-> Written(file, cs, outcome),
     printed |-> IF outcome = "ok"
                 THEN <<Msg("saved", 0, <<"countries.json">>)>>
                 ELSE <<>>,
     raised  |-> outcome # "ok"]

\* save_to_json(countries, 'countries.json')
SaveToJson(cs, file, outcome) ==
    [file    |-> Written(file, cs, outcome),
     printed |-> IF outcome = "ok"
                 THEN <<Msg("saved", 0, <<"countries.json">>)>>
                 ELSE <<Msg("save_failed", 0, <<"countries.json">>)>>,
     raised  |-> FALSE]

Fields == <<"id", "name_zh", "name_en", "formal_en", "type", "sovereignty">>

\* CsvRow writing only the fields the Record carries
CsvRowOwnKeys(country) ==
    LET own == SelectSeq(Fields, LAMBDA f : f \in DOMAIN country)
    IN  [i \in 1..Len(own) |-> country[own[i]]]

\* row = {field: country.get(field, '') for field in fields}, as written
CsvRow(country) == [i \in 1..Len(Fields) |-> DictGet(country, Fields[i], "")]

\* writer.writeheader() and one writer.writerow(row) per country
CsvLines(cs) == <<Fields>> \o [k \in 1..Len(cs) |-> CsvRow(cs[k])]

\* save_to_csv(countries, 'countries.csv')
SaveToCsv(cs, file, outcome) ==
    [file    |-> Written(file, CsvLines(cs), outcome),
     printed |-> IF outcome = "ok"
                 THEN <<Msg("saved", 0, <<"countries.csv">>)>>
                 ELSE <<Msg("save_failed", 0, <<"countries.csv">>)>>,
     raised  |-> FALSE]

-----------------------------------------------------------------------------
(* The summaries main prints.                                              *)

\* type_counts after the counting loop
RECURSIVE CountTypes(_, _)
CountTypes(cs, counts) ==
    IF cs = <<>> THEN counts
    ELSE LET t == DictGet(Head(cs), "type", "weizhi")
         IN  CountTypes(Tail(cs), DictSet(counts, t, DictGet(counts, t, 0) + 1))

TypeCounts(cs) == CountTypes(cs, EmptyDict)

\* the keys of sorted(type_counts.items())
SortedLabels(counts) ==
    LET S == DOMAIN counts
    IN  CHOOSE s \in [1..Cardinality(S) -> S] :
            \A i, j \in 1..Cardinality(S) : i < j => StrLess(s[i], s[j])

\* the lines of the type statistics
TypeStats(cs) ==
    LET counts == TypeCounts(cs)
        labels == SortedLabels(counts)
    IN  <<Msg("stats_title", 0, <<>>)>>
        \o [i \in 1..Len(labels) |-> Msg("type_count", counts[labels[i]], <<labels[i]>>)]

SearchTerms == <<"Zhongguo", "Meiguo", "Riben", "Yindunixiya">>

\* found = [c for c in countries if term in name_zh or term in name_en]
Found(cs, term) ==
    SelectSeq(cs, LAMBDA c : \/ StrContains(term, DictGet(c, "name_zh", ""))
                             \/ StrContains(term, DictGet(c, "name_en", "")))

\* the line printed for one search term; c.get(k) of a missing key prints None
LookupLine(cs, term) ==
    LET found == Found(cs, term)
    IN  IF found # <<>>
        THEN Msg("term_found", 0, <<term, DictGet(found[1], "name_zh", "None"),
                                    DictGet(found[1], "name_en", "None")>>)
        ELSE Msg("term_not_found", 0, <<term>>)

Lookups(cs) ==
    <<Msg("lookup_title", 0, <<>>)>>
    \o [i \in 1..Len(SearchTerms) |-> LookupLine(cs, SearchTerms[i])]

-----------------------------------------------------------------------------
(* main()                                                                  *)

PreviewLimit == 10

\* the nodes of the documents main is run on: the svg-namespaced nodes with
\* any of id, data-name_en, data-type and an empty data-name_zht, and one
\* node with all seven attributes
MainNodes ==
    {NodeOf(c, TRUE) :
        c \in {f \in [{"id", "data-name_zht", "data-name_en", "data-type"}
                        -> {0, 1, 2}] :
                 /\ f["id"] # 1
                 /\ f["data-name_zht"] # 2
                 /\ f["data-name_en"] # 1
                 /\ f["data-type"] # 1}}
    \cup {NodeOf([a \in AttrSet |-> 2], TRUE)}

MainDocs == SeqsUpTo(MainNodes, MaxNodes)

\* files left by an earlier run
OldJson == FileWith(<<[id |-> "OLD", name_zh |-> "OLD"]>>)
OldCsv  == FileWith(<<Fields, <<"OLD", "OLD", "", "", "", "">>>>)

\* MainBranch without the test: the report and the writes always run
MainBranchAlways(cs) == "preview"

\* `if countries:` ... `else:`
MainBranch(cs) == IF cs # <<>> THEN "preview" ELSE "not_found"

\* where main goes after a call: on, or out with the exception
AfterCall(raised, next) == IF raised THEN "aborted" ELSE next

MainIdle ==
    /\ pc = "idle" /\ fileKind = "wellformed" /\ doc = <<>>
    /\ countries = <<>> /\ out = <<>> /\ calls = <<>>
    /\ jsonFile = NoFile /\ csvFile = NoFile
    /\ before = [json |-> NoFile, csv |-> NoFile]

ExIdle ==
    /\ exDoc = <<>> /\ xmlRan = TRUE /\ xmlOut = <<>>
    /\ reRan = TRUE /\ reOut = <<>>

TblIdle ==
    /\ tblCountries = <<>> /\ tblLimit = <<>> /\ tblRan = TRUE /\ tblOut = <<>>

Init ==
    /\ pc = "start"
    /\ fileKind \in FileKinds
    /\ doc \in MainDocs
    /\ fileKind \in {"missing", "unreadable", "undecodable"} => doc = <<>>
    /\ countries = <<>> /\ out = <<>> /\ calls = <<>>
    /\ before \in {[json |-> NoFile, csv |-> NoFile],
                   [json |-> OldJson, csv |-> OldCsv]}
    /\ jsonFile = before.json
    /\ csvFile = before.csv
    /\ ExIdle /\ TblIdle

\* lines 208-211: the progress line, the extraction, the branch
MainExtract ==
    /\ pc = "start"
    /\ LET r == ExtractCountriesFromSvg(fileKind, doc)
       IN  /\ out' = out \o <<Msg("progress", 0, <<>>)>> \o r.printed
           /\ countries' = r.countries
           /\ pc' = AfterCall(r.raised, MainBranch(r.countries))
    /\ calls' = Append(calls, "extract_countries_from_svg")
    /\ UNCHANGED <<fileKind, doc, jsonFile, csvFile, before, exVars, tblVars>>

\* lines 212-216
MainPreview ==
    /\ pc = "preview"
    /\ out' = out \o <<Msg("extracted", Len(countries), <<>>),
                       Msg("preview_title", 0, <<>>)>>
                  \o PrintCountriesTable(countries, <<PreviewLimit>>)
    /\ calls' = Append(calls, "print_countries_table")
    /\ pc' = "save_json"
    /\ UNCHANGED <<fileKind, doc, countries, jsonFile, csvFile, before,
                   exVars, tblVars>>

\* line 219
MainSaveJson ==
    /\ pc = "save_json"
    /\ \E outcome \in WriteOutcomes :
         LET r == SaveToJson(countries, jsonFile, outcome)
         IN  /\ jsonFile' = r.file
             /\ out' = out \o r.printed
             /\ pc' = AfterCall(r.raised, "save_csv")
    /\ calls' = Append(calls, "save_to_json")
    /\ UNCHANGED <<fileKind, doc, countries, csvFile, before, exVars, tblVars>>

\* line 222
MainSaveCsv ==
    /\ pc = "save_csv"
    /\ \E outcome \in WriteOutcomes :
         LET r == SaveToCsv(countries, csvFile, outcome)
         IN  /\ csvFile' = r.file
             /\ out' = out \o r.printed
             /\ pc' = AfterCall(r.raised, "stats")
    /\ calls' = Append(calls, "save_to_csv")
    /\ UNCHANGED <<fileKind, doc, countries, jsonFile, before, exVars, tblVars>>

\* lines 225-232
MainTypeStats ==
    /\ pc = "stats"
    /\ out' = out \o TypeStats(countries)
    /\ pc' = "lookup"
    /\ UNCHANGED <<fileKind, doc, countries, calls, jsonFile, csvFile, before,
                   exVars, tblVars>>

\* lines 235-242
MainLookups ==
    /\ pc = "lookup"
    /\ out' = out \o Lookups(countries)
    /\ pc' = "done"
    /\ UNCHANGED <<fileKind, doc, countries, calls, jsonFile, csvFile, before,
                   exVars, tblVars>>

\* line 244
MainNotFound ==
    /\ pc = "not_found"
    /\ out' = out \o <<Msg("no_countries", 0, <<>>)>>
    /\ pc' = "done"
    /\ UNCHANGED <<fileKind, doc, countries, calls, jsonFile, csvFile, before,
                   exVars, tblVars>>

Next ==
    \/ MainExtract
    \/ MainPreview
    \/ MainSaveJson
    \/ MainSaveCsv
    \/ MainTypeStats
    \/ MainLookups
    \/ MainNotFound

Spec == Init /\ [][Next]_vars

-----------------------------------------------------------------------------
(* The two extractors on the same attribute data: the structured parse of  *)
(* a well-formed file, the fallback on a malformed file carrying the same  *)
(* path tags.                                                              *)

ExInit ==
    /\ exDoc \in ExDocs
    /\ xmlRan = FALSE /\ xmlOut = <<>>
    /\ reRan = FALSE /\ reOut = <<>>
    /\ MainIdle /\ TblIdle

RunXml ==
    /\ ~xmlRan
    /\ xmlOut' = ExtractCountriesFromSvg("wellformed", exDoc).countries
    /\ xmlRan' = TRUE
    /\ UNCHANGED <<exDoc, reRan, reOut, mainVars, tblVars>>

RunRegex ==
    /\ ~reRan
    /\ reOut' = ExtractCountriesWithRegex("malformed", exDoc).countries
    /\ reRan' = TRUE
    /\ UNCHANGED <<exDoc, xmlRan, xmlOut, mainVars, tblVars>>

ExNext == RunXml \/ RunRegex

SpecExtract == ExInit /\ [][ExNext]_vars

-----------------------------------------------------------------------------
(* print_countries_table on any extracted sequence with any limit.         *)

Limits == {<<>>} \cup {<<l>> : l \in 0..MaxLimit}

TblInputs ==
    {ExtractCountriesFromSvg("wellformed", d).countries : d \in MainDocs}
    \cup {ExtractCountriesWithRegex("malformed", d).countries : d \in MainDocs}

TblInit ==
    /\ tblCountries \in TblInputs
    /\ tblLimit \in Limits
    /\ tblRan = FALSE /\ tblOut = <<>>
    /\ MainIdle /\ ExIdle

PrintTable ==
    /\ ~tblRan
    /\ tblOut' = PrintCountriesTable(tblCountries, tblLimit)
    /\ tblRan' = TRUE
    /\ UNCHANGED <<tblCountries, tblLimit, mainVars, exVars>>

TblNext == PrintTable

SpecTable == TblInit /\ [][TblNext]_vars

-----------------------------------------------------------------------------
(* Properties                                                              *)

Range(s) == {s[i] : i \in 1..Len(s)}

\* a record carries a name: name_zh or name_en present and non-empty
HasName(r) == DictGet(r, "name_zh", "") # "" \/ DictGet(r, "name_en", "") # ""

\* the k-th smallest element of a set of indices
KthOf(S, k) == CHOOSE i \in S : Cardinality({j \in S : j <= i}) = k

\* result is exactly the members of built that carry a name, in built's order
IsNamedSubsequence(result, built) ==
    LET keep == {i \in 1..Len(built) : HasName(built[i])}
    IN  /\ Len(result) = Cardinality(keep)
        /\ \A k \in 1..Len(result) : result[k] = built[KthOf(keep, k)]

\* the dictionaries the structured parse builds for the path elements it finds
XmlBuilt(d) ==
    LET paths == FindPaths(d)
    IN  [k \in 1..Len(paths) |-> XmlCountryInfo(paths[k])]

\* the dictionaries the fallback builds for the path tags it matches
ReBuilt(d) ==
    LET tags == ReFindAllPaths(Rendering(d))
    IN  [k \in 1..Len(tags) |-> ReCountryInfo(tags[k])]

\* C1: on the same attribute data the structured parse of the well-formed
\* document and the fallback on its malformed rendering return the same
\* Record sequence: same records, same order, same fields, same values.
C1_ExtractorsAgree == (xmlRan /\ reRan) => xmlOut = reOut

\* C2: neither extractor returns a Record whose name_zh and name_en are both
\* empty or missing, and every path node an extractor visits whose resolved
\* name_zh or name_en is non-empty has its Record in the result.
C2_NoEmptyRecord ==
    /\ xmlRan =>
         /\ \A k \in 1..Len(xmlOut) : HasName(xmlOut[k])
         /\ \A r \in Range(XmlBuilt(exDoc)) : HasName(r) => r \in Range(xmlOut)
    /\ reRan =>
         /\ \A k \in 1..Len(reOut) : HasName(reOut[k])
         /\ \A r \in Range(ReBuilt(exDoc)) : HasName(r) => r \in Range(reOut)

\* C2 witness: both extractors ran on a document of which they kept one node
\* and dropped another
C2_Witness ==
    /\ xmlRan /\ reRan
    /\ Len(exDoc) = 2
    /\ Len(xmlOut) = 1 /\ Len(reOut) = 1
    /\ Len(XmlBuilt(exDoc)) = 2 /\ Len(ReBuilt(exDoc)) = 2

\* the name the stated chain gives a node: data-name_zht if present, else
\* data-name_zh if present, else the id
ChainName(node) ==
    IF "data-name_zht" \in DOMAIN node.attrib THEN node.attrib["data-name_zht"]
    ELSE IF "data-name_zh" \in DOMAIN node.attrib THEN node.attrib["data-name_zh"]
    ELSE PathGet(node, "id", "")

\* every Record of result comes from a node of d with its id and the chain's name
FollowsChain(result, d) ==
    \A k \in 1..Len(result) :
        \E j \in 1..Len(d) :
            /\ DictGet(result[k], "id", "") = PathGet(d[j], "id", "")
            /\ DictGet(result[k], "name_zh", "") = ChainName(d[j])

\* C4: in both extractors name_zh is the value of data-name_zht if that
\* attribute is present, else the value of data-name_zh if present, else the id.
C4_PriorityChain ==
    /\ xmlRan => FollowsChain(xmlOut, exDoc)
    /\ reRan => FollowsChain(reOut, exDoc)

\* C8: the sequence either extractor returns is the subsequence, in document
\* order, of the path nodes it visits that pass the non-empty filter: one
\* Record per retained node, none reordered, merged or dropped as a duplicate.
C8_DocumentOrder ==
    /\ xmlRan => IsNamedSubsequence(xmlOut, XmlBuilt(exDoc))
    /\ reRan => IsNamedSubsequence(reOut, ReBuilt(exDoc))

\* C8 witness: two retained nodes with the same id gave two different Records
C8_Witness ==
    /\ xmlRan /\ reRan
    /\ Len(xmlOut) = 2 /\ Len(reOut) = 2
    /\ xmlOut[1].id = "CHN" /\ xmlOut[2].id = "CHN" /\ xmlOut[1] # xmlOut[2]
    /\ DictGet(reOut[1], "id", "") = "CHN" /\ DictGet(reOut[2], "id", "") = "CHN"
    /\ reOut[1] # reOut[2]

\* C3: no run of main ends with an error leaving extraction or serialization.
C3_NeverAborts == pc # "aborted"

SavedMsg(name) == Msg("saved", 0, <<name>>)
FailedMsg(name) == Msg("save_failed", 0, <<name>>)

\* C5: after a successful save_to_csv the file holds the header id, name_zh,
\* name_en, formal_en, type, sovereignty and then one row per Record in
\* sequence order, each of six columns, '' where the Record lacks the field.
C5_CsvSixColumns ==
    (pc \in {"stats", "lookup", "done"} /\ SavedMsg("countries.csv") \in Range(out)) =>
        /\ csvFile.exists /\ csvFile.complete
        /\ Len(csvFile.data) = Len(countries) + 1
        /\ csvFile.data[1] =
              <<"id", "name_zh", "name_en", "formal_en", "type", "sovereignty">>
        /\ \A k \in 1..Len(countries) :
              LET row == csvFile.data[k + 1]
              IN  /\ Len(row) = 6
                  /\ \A i \in 1..6 :
                        row[i] = IF csvFile.data[1][i] \in DOMAIN countries[k]
                                 THEN countries[k][csvFile.data[1][i]]
                                 ELSE ""

\* C5 witness: a CSV was written from a Record that lacks some of the fields
C5_Witness ==
    /\ pc = "done"
    /\ SavedMsg("countries.csv") \in Range(out)
    /\ \E k \in 1..Len(countries) :
          /\ "type" \notin DOMAIN countries[k]
          /\ "name_en" \in DOMAIN countries[k]

\* C6: in a run that extracted a Record, a failed write is reported and the
\* run goes on: save_to_csv is attempted whatever save_to_json did, and the
\* preview, the type statistics and the four lookups are all printed.
C6_WriteFailureNotFatal ==
    /\ pc = "aborted" => calls = <<"extract_countries_from_svg">>
    /\ (pc = "done" /\ countries # <<>>) =>
         /\ calls = <<"extract_countries_from_svg", "print_countries_table",
                      "save_to_json", "save_to_csv">>
         /\ jsonFile # FileWith(countries) => FailedMsg("countries.json") \in Range(out)
         /\ csvFile # FileWith(CsvLines(countries)) =>
               FailedMsg("countries.csv") \in Range(out)
         /\ Msg("found", Len(countries), <<>>) \in Range(out)
         /\ Cardinality({i \in 1..Len(out) : out[i].tag = "row"}) = Len(countries)
         /\ Msg("stats_title", 0, <<>>) \in Range(out)
         /\ \E m \in Range(out) : m.tag = "type_count"
         /\ Cardinality({i \in 1..Len(out) :
                           out[i].tag \in {"term_found", "term_not_found"}}) = 4

\* C6 witness: a run reached its end after both writes failed
C6_Witness ==
    /\ pc = "done"
    /\ FailedMsg("countries.json") \in Range(out)
    /\ FailedMsg("countries.csv") \in Range(out)

\* the printed count of a type label, 0 when the label has no line
PrintedCount(label) ==
    LET lines == {m \in Range(out) : m.tag = "type_count" /\ m.text = <<label>>}
    IN  IF lines = {} THEN 0 ELSE (CHOOSE m \in lines : TRUE).n

\* C7: in the type statistics every Record whose node has no type attribute
\* is counted under "weizhi", every other Record under its type value, and
\* the counts add up to the number of Records.  (In the documents main runs
\* on, a type attribute that is present is never empty.)
C7_MissingTypeUnknown ==
    (pc \in {"lookup", "done"} /\ countries # <<>>) =>
        LET untyped == {k \in 1..Len(countries) : DictGet(countries[k], "type", "") = ""}
            typed   == {k \in 1..Len(countries) : k \notin untyped}
        IN  /\ PrintedCount("weizhi") = Cardinality(untyped)
            /\ PrintedCount("Sovereign country") = Cardinality(typed)
            /\ PrintedCount("") = 0

TableRowsShown == Cardinality({i \in 1..Len(tblOut) : tblOut[i].tag = "row"})

TableOmitted ==
    LET lines == {i \in 1..Len(tblOut) : tblOut[i].tag = "omitted"}
    IN  IF lines = {} THEN 0 ELSE tblOut[CHOOSE i \in lines : TRUE].n

\* C9: with limit L the table shows the first min(L, n) of the n Records, and
\* the trailing line is printed exactly when Records were left out, giving
\* n minus the rows shown; with no limit all n are shown and no line printed.
C9_RowsAndOmitted ==
    tblRan =>
        LET n      == Len(tblCountries)
            expect == IF tblLimit = <<>> THEN n
                      ELSE IF tblLimit[1] < n THEN tblLimit[1] ELSE n
        IN  /\ TableRowsShown = expect
            /\ \A i \in 1..expect :
                  tblOut[4 + i] = TableRow(i, tblCountries[i])
            /\ (\E m \in Range(tblOut) : m.tag = "omitted") <=> expect < n
            /\ TableRowsShown + TableOmitted = n

\* what main prints once the extraction has returned
MainOwnTags ==
    {"extracted", "preview_title", "found", "rule", "table_header", "row",
     "omitted", "saved", "save_failed", "stats_title", "type_count",
     "lookup_title", "term_found", "term_not_found", "no_countries"}

\* C10: when the extraction returns an empty sequence main calls neither
\* serializer nor the reporter, countries.json and countries.csv stay as they
\* were before the run, and of main's messages only the not-found one is
\* printed.
C10_EmptyLeavesFiles ==
    (pc \in {"not_found", "done"} /\ countries = <<>>) =>
        /\ calls = <<"extract_countries_from_svg">>
        /\ jsonFile = before.json
        /\ csvFile = before.csv
        /\ \A m \in Range(out) : m.tag \in MainOwnTags => m.tag = "no_countries"
        /\ pc = "done" => out[Len(out)] = Msg("no_countries", 0, <<>>)

\* C10 witness: a run over a document with nodes, none retained, ended with
\* the files of an earlier run in place
C10_Witness ==
    /\ pc = "done"
    /\ countries = <<>>
    /\ Len(doc) > 0
    /\ before.json = OldJson /\ jsonFile = OldJson /\ csvFile = OldCsv

====
